---- MODULE Spec2Model ----
(***************************************************************************)
(* Model of src/app.py, the Streamlit dashboard over the car-loan table:   *)
(* load_data (read + cleaning, cached by st.cache_data), the sidebar       *)
(* filters, the filtered view df_filtre, the KPI block and the aggregate   *)
(* tables.  One script run (top to bottom) is one action.                  *)
(*                                                                         *)
(* Conventions.  A table is a sequence of rows; a row is a record whose    *)
(* field idx is the pandas index label.  A missing numeric cell is NaN, a  *)
(* missing categorical cell is NaNCat.  Text cells that the code slices    *)
(* (postal codes) are sequences of one-character strings.  Means are kept  *)
(* as exact fractions [num, den]; the float NaN of an empty mean is the    *)
(* record with nan = TRUE.                                                 *)
(***************************************************************************)
EXTENDS Integers, Sequences, FiniteSets, TLC

VARIABLES
    source,     \* rows of donnees_nettoyees.xlsx as they are on disk
    cache,      \* st.cache_data entry of load_data("donnees_nettoyees.xlsx")
    loads,      \* how many times the body of load_data has been executed
    status,     \* "init" before the first run, "ok", or "error" (load raised)
    df,         \* the script's df of the last run
    sel,        \* the seven multiselect values of the last run
    df_filtre,  \* the filtered view of the last run
    out         \* what the last run computed and rendered

vars == <<source, cache, loads, status, df, sel, df_filtre, out>>

-----------------------------------------------------------------------------
(* Missing values *)

NaN == -1000000

NaNCat == "nan"

notna(x) == x # NaN

(* Comparisons of a float column with a scalar: False on NaN. *)
ge(x, c) == notna(x) /\ x >= c

le(x, c) == notna(x) /\ x <= c

(* Series - Series: NaN if either side is NaN. *)
sub(a, b) == IF notna(a) /\ notna(b) THEN a - b ELSE NaN

-----------------------------------------------------------------------------
(* Generic helpers *)

Range(s) == {s[i] : i \in DOMAIN s}

Min(a, b) == IF a <= b THEN a ELSE b

(* df[col] = value on one row: the column is added or overwritten. *)
Assign(r, col, v) == [f \in (DOMAIN r) \cup {col} |-> IF f = col THEN v ELSE r[f]]

-----------------------------------------------------------------------------
(* Text: str(int), str(float), zfill, slicing *)

Digit(d) == CASE d = 0 -> "0" [] d = 1 -> "1" [] d = 2 -> "2" [] d = 3 -> "3"
              [] d = 4 -> "4" [] d = 5 -> "5" [] d = 6 -> "6" [] d = 7 -> "7"
              [] d = 8 -> "8" [] d = 9 -> "9"

RECURSIVE StrInt(_)
StrInt(n) == IF n < 10 THEN <<Digit(n)>> ELSE StrInt(n \div 10) \o <<Digit(n % 10)>>

(* str(x) of a float holding a whole number: "1000.0". *)
StrFloat(n) == StrInt(n) \o <<".", "0">>

RECURSIVE Zeros(_)
Zeros(k) == IF k <= 0 THEN <<>> ELSE <<"0">> \o Zeros(k - 1)

ZfillWidth == 5

DepLen == 2

(* zfill as an unconditional "0" + s *)
zfillPrependZero(s, width) == <<"0">> \o s

(* str.zfill(width): left-pad with "0" up to width; longer text is kept.
   (The text here never starts with a sign.) *)
zfill(s, width) == Zeros(width - Len(s)) \o s

(* s[:n] *)
Prefix(s, n) == SubSeq(s, 1, Min(n, Len(s)))

-----------------------------------------------------------------------------
(* pd.read_excel: the cells of the code_postal column *)

IntCell(n) == [kind |-> "int", num |-> n, str |-> <<>>]

FloatCell(n) == [kind |-> "float", num |-> n, str |-> <<>>]

StrCell(s) == [kind |-> "str", num |-> 0, str |-> s]

NanCell == [kind |-> "nan", num |-> 0, str |-> <<>>]

(* Column dtype inference: a column holding text is read as object and keeps
   every cell as it is; a column of numbers with a float or an empty cell is
   float64, so its integer cells become floats; all integers stay int64. *)
ColumnIsFloat(t) ==
    /\ \A i \in DOMAIN t : t[i].code_postal.kind # "str"
    /\ \E i \in DOMAIN t : t[i].code_postal.kind \in {"float", "nan"}

ReadCell(c, isFloat) ==
    IF isFloat /\ c.kind = "int" THEN FloatCell(c.num) ELSE c

read_excel(t) ==
    [i \in DOMAIN t |->
        [t[i] EXCEPT !.code_postal = ReadCell(@, ColumnIsFloat(t))]]

-----------------------------------------------------------------------------
(* load_data: the cleaning steps *)

(* .astype(str) on one cell *)
astype_str(c) ==
    CASE c.kind = "int"   -> StrInt(c.num)
      [] c.kind = "float" -> StrFloat(c.num)
      [] c.kind = "nan"   -> <<"n", "a", "n">>
      [] c.kind = "str"   -> c.str

NaT == [nat |-> TRUE, y |-> 0, m |-> 0]

Date(y, m) == [nat |-> FALSE, y |-> y, m |-> m]

(* pd.to_datetime({"year", "month", "day": 1}, errors="coerce") on one row:
   pandas assembles the integer year*10000 + month*100 + day and parses it
   with the format %Y%m%d; what does not parse is coerced to NaT.  The day
   is always 01, so a value parses exactly when its month digits are 01..12.
   (Years here have four digits and lie inside the Timestamp range.) *)
to_datetime(year, month) ==
    LET v == year * 10000 + month * 100 + 1
        Y == v \div 10000
        M == (v \div 100) % 100
    IN  IF M >= 1 /\ M <= 12 THEN Date(Y, M) ELSE NaT

KeepTauxPresent(r) == notna(r.taux_endettement)

(* KeepTauxRange with the lower bound forgotten *)
KeepTauxRangeNoFloor(r) == le(r.taux_endettement, 100)

KeepTauxRange(r) == ge(r.taux_endettement, 0) /\ le(r.taux_endettement, 100)

AgeOf(r) == sub(r.annee_demande, r.annee_naissance)

KeepAge(r) == ge(r.age, 18)

RECURSIVE FilterTauxPresent(_)
FilterTauxPresent(t) ==
    IF t = <<>> THEN <<>>
    ELSE (IF KeepTauxPresent(Head(t)) THEN <<Head(t)>> ELSE <<>>)
         \o FilterTauxPresent(Tail(t))

RECURSIVE FilterTauxRange(_)
FilterTauxRange(t) ==
    IF t = <<>> THEN <<>>
    ELSE (IF KeepTauxRange(Head(t)) THEN <<Head(t)>> ELSE <<>>)
         \o FilterTauxRange(Tail(t))

RECURSIVE FilterAge(_)
FilterAge(t) ==
    IF t = <<>> THEN <<>>
    ELSE (IF KeepAge(Head(t)) THEN <<Head(t)>> ELSE <<>>)
         \o FilterAge(Tail(t))

WithAge(t) == [i \in DOMAIN t |-> Assign(t[i], "age", AgeOf(t[i]))]

CodePostalOf(r) == StrCell(zfill(astype_str(r.code_postal), ZfillWidth))

WithCodePostal(t) == [i \in DOMAIN t |-> Assign(t[i], "code_postal", CodePostalOf(t[i]))]

DepartementOf(r) == Prefix(r.code_postal.str, DepLen)

WithDepartement(t) == [i \in DOMAIN t |-> Assign(t[i], "departement", DepartementOf(t[i]))]

DateDemandeOf(r) == to_datetime(r.annee_demande, r.mois_demande)

WithDateDemande(t) == [i \in DOMAIN t |-> Assign(t[i], "date_demande", DateDemandeOf(t[i]))]

(* Lines 48-57: everything before the date column. *)
BeforeDate(t) ==
    WithDepartement(WithCodePostal(FilterAge(WithAge(
        FilterTauxRange(FilterTauxPresent(t))))))

(* .astype(int) raises on a NaN cell of annee_demande or mois_demande. *)
AstypeIntRaises(t) ==
    \E i \in DOMAIN t : ~notna(t[i].annee_demande) \/ ~notna(t[i].mois_demande)

(* The cleaning steps on an in-memory table (lines 46-66). *)
CleanRaises(t) == AstypeIntRaises(BeforeDate(t))

Clean(t) == WithDateDemande(BeforeDate(t))

(* load_data(path): read, then clean. *)
LoadRaises(file) == CleanRaises(read_excel(file))

load_data(file) == Clean(read_excel(file))

-----------------------------------------------------------------------------
(* Sidebar: the options of each multiselect, and the filtered view *)

objets_veh(t) == {t[i].objet_vehicule : i \in DOMAIN t} \ {NaNCat}

types_pret(t) == {t[i].type_pret : i \in DOMAIN t} \ {NaNCat}

types_veh(t) == {t[i].type_vehicule : i \in DOMAIN t} \ {NaNCat}

classes_score(t) == {t[i].classe_de_score : i \in DOMAIN t} \ {NaNCat}

annees(t) == {t[i].annee_demande : i \in DOMAIN t} \ {NaN}

etats(t) == {t[i].etat_demande : i \in DOMAIN t} \ {NaNCat}

decisions_client(t) == {t[i].decision_client : i \in DOMAIN t} \ {NaNCat}

(* options= of the seven widgets, keyed by the variable each one is read into *)
Options(t) ==
    [objet_veh_sel       |-> objets_veh(t),
     type_pret_sel       |-> types_pret(t),
     type_veh_sel        |-> types_veh(t),
     classe_sel          |-> classes_score(t),
     annee_sel           |-> annees(t),
     etat_sel            |-> etats(t),
     decision_client_sel |-> decisions_client(t)]

Widgets == {"objet_veh_sel", "type_pret_sel", "type_veh_sel", "classe_sel",
            "annee_sel", "etat_sel", "decision_client_sel"}

(* default= of every widget is its full option list *)
DefaultSel(t) == Options(t)

(* Series.isin(values) on one cell *)
isin(v, values) == v \in values

(* RowMask with the last criterion forgotten *)
RowMaskWithoutClient(r, s) ==
    /\ isin(r.objet_vehicule, s.objet_veh_sel)
    /\ isin(r.type_pret, s.type_pret_sel)
    /\ isin(r.type_vehicule, s.type_veh_sel)
    /\ isin(r.classe_de_score, s.classe_sel)
    /\ isin(r.annee_demande, s.annee_sel)
    /\ isin(r.etat_demande, s.etat_sel)

(* The boolean mask of lines 129-135 on one row *)
RowMask(r, s) ==
    /\ isin(r.objet_vehicule, s.objet_veh_sel)
    /\ isin(r.type_pret, s.type_pret_sel)
    /\ isin(r.type_vehicule, s.type_veh_sel)
    /\ isin(r.classe_de_score, s.classe_sel)
    /\ isin(r.annee_demande, s.annee_sel)
    /\ isin(r.etat_demande, s.etat_sel)
    /\ isin(r.decision_client, s.decision_client_sel)

RECURSIVE Filtre(_, _)
Filtre(t, s) ==
    IF t = <<>> THEN <<>>
    ELSE (IF RowMask(Head(t), s) THEN <<Head(t)>> ELSE <<>>) \o Filtre(Tail(t), s)

-----------------------------------------------------------------------------
(* KPI block *)

(* A float result: an exact fraction, the float nan, or the literal "NA" *)
Num(n, d) == [kind |-> "num", num |-> n, den |-> d]

NanF == [kind |-> "nan", num |-> 0, den |-> 1]

NA == [kind |-> "NA", num |-> 0, den |-> 1]

RECURSIVE SumCol(_, _)
SumCol(t, col) ==
    IF t = <<>> THEN 0
    ELSE (IF notna(Head(t)[col]) THEN Head(t)[col] ELSE 0) + SumCol(Tail(t), col)

CountCol(t, col) == Cardinality({i \in DOMAIN t : notna(t[i][col])})

(* Series.mean(): NaN cells are skipped; nan when nothing is left *)
MeanCol(t, col) ==
    IF CountCol(t, col) = 0 THEN NanF ELSE Num(SumCol(t, col), CountCol(t, col))

GrantLiteral == "Octroyé"

(* Series.eq("Octroyé"): False on a missing cell *)
EqOctroye(r) == r.etat_demande = GrantLiteral

(* OctroiPct without the * 100 *)
OctroiFraction(t) ==
    IF t = <<>> THEN NanF
    ELSE Num(Cardinality({i \in DOMAIN t : EqOctroye(t[i])}), Len(t))

(* .eq("Octroyé").mean() * 100 *)
OctroiPct(t) ==
    IF t = <<>> THEN NanF
    ELSE Num(100 * Cardinality({i \in DOMAIN t : EqOctroye(t[i])}), Len(t))

(* TauxOctroiMetric without its guard *)
TauxOctroiUnguarded(t) == OctroiPct(t)

(* with col4: the guard len(df_filtre) > 0 *)
TauxOctroiMetric(t) == IF Len(t) > 0 THEN OctroiPct(t) ELSE NA

-----------------------------------------------------------------------------
(* Aggregate tables *)

(* Series.value_counts(): one (value, count) per non-missing value *)
value_counts(t, col) ==
    {<<v, Cardinality({i \in DOMAIN t : t[i][col] = v})>> :
        v \in {t[i][col] : i \in DOMAIN t} \ {NaNCat}}

DateKey(d) == d.y * 12 + d.m

RECURSIVE SortDates(_)
SortDates(S) ==
    IF S = {} THEN <<>>
    ELSE LET first == CHOOSE d \in S : \A e \in S : DateKey(d) <= DateKey(e)
         IN  <<first>> \o SortDates(S \ {first})

(* dropna(subset=["date_demande"]).groupby("date_demande").size():
   one row per distinct date, in ascending date order *)
MonthlySeries(t) ==
    LET dates  == {t[i].date_demande : i \in DOMAIN t} \ {NaT}
        sorted == SortDates(dates)
    IN  [k \in DOMAIN sorted |->
            [date_demande |-> sorted[k],
             nombre |-> Cardinality({i \in DOMAIN t : t[i].date_demande = sorted[k]})]]

(* the guard of line 335 *)
TsGuard(t) == ~(\A i \in DOMAIN t : t[i].date_demande = NaT)

(* groupby("departement").size() *)
DepGroups(t) ==
    {[departement |-> d, nombre |-> Cardinality({i \in DOMAIN t : t[i].departement = d})] :
        d \in {t[i].departement : i \in DOMAIN t}}

MaxNombre(G) == CHOOSE n \in {g.nombre : g \in G} : \A g \in G : g.nombre <= n

(* sort_values("nombre", ascending=False) with the default kind="quicksort",
   which is not a stable sort: every ordering by descending count is a
   possible result, whatever the order of the tied groups. *)
RECURSIVE sort_values_desc(_)
sort_values_desc(G) ==
    IF G = {} THEN {<<>>}
    ELSE UNION {{<<g>> \o rest : rest \in sort_values_desc(G \ {g})} :
                    g \in {h \in G : h.nombre = MaxNombre(G)}}

TopN == 15

(* .head(n) *)
head(s, n) == SubSeq(s, 1, Min(n, Len(s)))

TopDepOutcomes(t) == {head(s, TopN) : s \in sort_values_desc(DepGroups(t))}

-----------------------------------------------------------------------------
(* One script run, from line 68 to the end *)

ChartNames == {"decision_banque", "decision_client", "dist_pret", "dist_objet",
               "dist_type_veh", "dist_score", "fig_box", "fig_prix", "fig_taux",
               "fig_duree", "top_dep", "dataframe", "csv"}

(* Everything the script computes from df_filtre; td is the sorted
   top-departments table of this run. *)
Outputs(t, td) ==
    [nb              |-> Len(t),
     montant_total   |-> SumCol(t, "montant_pret"),
     montant_moyen   |-> MeanCol(t, "montant_pret"),
     taux_octroi     |-> TauxOctroiMetric(t),
     taux_end_moy    |-> MeanCol(t, "taux_endettement"),
     age_moyen       |-> MeanCol(t, "age"),
     rendered        |-> (IF t # <<>> THEN ChartNames ELSE {})
                         \cup (IF TsGuard(t) THEN {"ts"} ELSE {}),
     decision_banque |-> IF t # <<>> THEN value_counts(t, "etat_demande") ELSE {},
     decision_client |-> IF t # <<>> THEN value_counts(t, "decision_client") ELSE {},
     dist_pret       |-> IF t # <<>> THEN value_counts(t, "type_pret") ELSE {},
     dist_objet      |-> IF t # <<>> THEN value_counts(t, "objet_vehicule") ELSE {},
     dist_type_veh   |-> IF t # <<>> THEN value_counts(t, "type_vehicule") ELSE {},
     dist_score      |-> IF t # <<>> THEN value_counts(t, "classe_de_score") ELSE {},
     ts              |-> IF TsGuard(t) THEN MonthlySeries(t) ELSE <<>>,
     top_dep         |-> IF t # <<>> THEN td ELSE <<>>,
     csv             |-> IF t # <<>> THEN t ELSE <<>>]

NoSel == [w \in Widgets |-> {}]

NoOut == Outputs(<<>>, <<>>)

NoCache == [hit |-> FALSE, df |-> <<>>]

(* The script from the sidebar on, with df = d and the widgets returning s *)
Render(d, s) ==
    /\ status' = "ok"
    /\ df' = d
    /\ sel' = s
    /\ df_filtre' = Filtre(d, s)
    /\ \E td \in TopDepOutcomes(Filtre(d, s)) : out' = Outputs(Filtre(d, s), td)

(* The uncaught exception of load_data ends the run at line 68 *)
Crash ==
    /\ status' = "error"
    /\ df' = <<>>
    /\ sel' = NoSel
    /\ df_filtre' = <<>>
    /\ out' = NoOut

MaxLoads == 2

(* Run without @st.cache_data: load_data is executed by every run *)
RunUncached(s) ==
    /\ loads < MaxLoads
    /\ loads' = loads + 1
    /\ IF LoadRaises(source)
       THEN cache' = cache /\ Crash
       ELSE /\ cache' = [hit |-> TRUE, df |-> load_data(source)]
            /\ Render(load_data(source),
                      IF status = "ok" THEN s ELSE DefaultSel(load_data(source)))

(* A whole run.  st.cache_data returns the stored table when load_data was
   already computed for this path; an exception stores nothing.  s is what
   the widgets return when they already exist; a first rendering of the
   widgets returns their defaults. *)
Run(s) ==
    IF cache.hit
    THEN /\ cache' = cache
         /\ loads' = loads
         /\ Render(cache.df, IF status = "ok" THEN s ELSE DefaultSel(cache.df))
    ELSE /\ loads < MaxLoads
         /\ loads' = loads + 1
         /\ IF LoadRaises(source)
            THEN cache' = cache /\ Crash
            ELSE /\ cache' = [hit |-> TRUE, df |-> load_data(source)]
                 /\ Render(load_data(source), DefaultSel(load_data(source)))

(* The session opens: first run of the script *)
Start ==
    /\ status = "init"
    /\ Run(NoSel)
    /\ UNCHANGED source

(* The user adds or removes one option of one multiselect, or clears it *)
FilterChange ==
    /\ status = "ok"
    /\ \E w \in Widgets :
         \E S \in {sel[w] \cup {v} : v \in Options(df)[w]}
                 \cup {sel[w] \ {v} : v \in Options(df)[w]} \cup {{}} :
            /\ S # sel[w]
            /\ Run([sel EXCEPT ![w] = S])
    /\ UNCHANGED source

(* The user reruns the script without touching a widget *)
Rerun ==
    /\ status \in {"ok", "error"}
    /\ Run(sel)
    /\ UNCHANGED source

(* The spreadsheet is rewritten on disk with its data rows removed *)
SourceEdit ==
    /\ source # <<>>
    /\ source' = <<>>
    /\ UNCHANGED <<cache, loads, status, df, sel, df_filtre, out>>

Next == Start \/ FilterChange \/ Rerun \/ SourceEdit

-----------------------------------------------------------------------------
(* Initial states: the session has not run yet; the file holds a table *)

BaseRow ==
    [taux_endettement |-> 30,
     annee_demande    |-> 2021,
     annee_naissance  |-> 1980,
     mois_demande     |-> 3,
     code_postal      |-> IntCell(75001),
     objet_vehicule   |-> "Particulier",
     type_pret        |-> "Classique",
     type_vehicule    |-> "Neuf",
     classe_de_score  |-> "A",
     etat_demande     |-> GrantLiteral,
     decision_client  |-> "Accepte",
     montant_pret     |-> 10000]

(* Every table of at most n rows drawn from Rows, indexed 1..len *)
Tables(Rows, n) ==
    UNION {{[i \in 1..k |-> Assign(f[i], "idx", i)] : f \in [1..k -> Rows]} : k \in 0..n}

InitWith(T) ==
    /\ source \in T
    /\ cache = NoCache
    /\ loads = 0
    /\ status = "init"
    /\ df = <<>>
    /\ sel = NoSel
    /\ df_filtre = <<>>
    /\ out = NoOut

MaxRows == 2

FilterRows ==
    {[BaseRow EXCEPT !.objet_vehicule = o, !.mois_demande = m] :
        o \in {"Particulier", "Professionnel", NaNCat},
        m \in {3, NaN}}

Init == InitWith(Tables(FilterRows, MaxRows))

Spec == Init /\ [][Next]_vars

-----------------------------------------------------------------------------
(* Properties of the filtered view (specification Spec) *)

(* The column each widget filters *)
ColumnOf ==
    [objet_veh_sel       |-> "objet_vehicule",
     type_pret_sel       |-> "type_pret",
     type_veh_sel        |-> "type_vehicule",
     classe_sel          |-> "classe_de_score",
     annee_sel           |-> "annee_demande",
     etat_sel            |-> "etat_demande",
     decision_client_sel |-> "decision_client"]

IdxOf(t) == {t[i].idx : i \in DOMAIN t}

(* C2: a cleaned record is in df_filtre if and only if, for every one of the
   seven fields, its value is a member of that field's accepted set; df_filtre
   holds nothing else; an empty accepted set gives an empty view. *)
C2_FilterIsConjunctionOfMemberships ==
    status = "ok" =>
        /\ \A i \in DOMAIN df :
              (df[i] \in Range(df_filtre))
                  <=> (\A w \in Widgets : df[i][ColumnOf[w]] \in sel[w])
        /\ Range(df_filtre) \subseteq Range(df)
        /\ Len(df_filtre) = Cardinality(IdxOf(df_filtre))
        /\ ((\E w \in Widgets : sel[w] = {}) => df_filtre = <<>>)

(* C2 witness: a run where non-empty selections keep one record and reject
   another. *)
C2_Witness ==
    /\ status = "ok"
    /\ \A w \in Widgets : sel[w] # {}
    /\ df_filtre # <<>>
    /\ Len(df_filtre) < Len(df)
    /\ sel # DefaultSel(df)

(* C3: with every widget at its default (all options selected) the filtered
   view has as many records as the cleaned table. *)
C3_DefaultSelectionKeepsEverything ==
    (status = "ok" /\ sel = DefaultSel(df)) => Len(df_filtre) = Len(df)

(* C6: on an empty filtered view the run completes, count is 0, the grant
   rate is the literal NA, the three means are nan and not a number, and no
   grouped table, time series, top-departments table or CSV is computed. *)
C6_EmptyViewDegrades ==
    (status = "ok" /\ df_filtre = <<>>) =>
        /\ out.nb = 0
        /\ out.taux_octroi = NA
        /\ out.montant_moyen = NanF
        /\ out.taux_end_moy = NanF
        /\ out.age_moyen = NanF
        /\ out.rendered = {}
        /\ out.decision_banque = {} /\ out.decision_client = {}
        /\ out.dist_pret = {} /\ out.dist_objet = {}
        /\ out.dist_type_veh = {} /\ out.dist_score = {}
        /\ out.ts = <<>> /\ out.top_dep = <<>> /\ out.csv = <<>>

(* C6 witness: the cleaned table has records and the filters reject them all *)
C6_Witness ==
    /\ status = "ok"
    /\ df # <<>>
    /\ \E i \in DOMAIN df : RowMask(df[i], DefaultSel(df))
    /\ df_filtre = <<>>

(* C10: once load_data has returned, no later step (filter change, rerun,
   edit of the file) executes it again or changes the cached table, and every
   run works on that table; a filter change leaves df as it was. *)
C10_LoadedOnceAndImmutable ==
    [][ /\ (cache.hit => (cache' = cache /\ loads' = loads))
        /\ (status' = "ok" => (cache'.hit /\ df' = cache'.df))
        /\ ((status = "ok" /\ sel' # sel) => df' = df) ]_vars

(* C10 witness: after a filter change and an edit of the file, the session
   still shows the table of its single load. *)
C10_Witness ==
    /\ status = "ok"
    /\ sel # DefaultSel(df)
    /\ ~LoadRaises(source) /\ load_data(source) # df
    /\ loads = 1

-----------------------------------------------------------------------------
(* Properties of the cleaning (specifications SpecDebt, SpecIdem, SpecClean) *)

MaxRowsDebt == 2

(* Tables whose rows differ in the debt ratio, the request year and the year
   of birth *)
DebtRows ==
    {[BaseRow EXCEPT !.taux_endettement = x] : x \in {NaN, -5, 0, 42, 100, 150}}
    \cup {[BaseRow EXCEPT !.annee_naissance = b] : b \in {2003, 2004, NaN}}
    \cup {[BaseRow EXCEPT !.annee_demande = NaN],
          [BaseRow EXCEPT !.taux_endettement = 150, !.annee_naissance = 2004]}

InitDebt == InitWith(Tables(DebtRows, MaxRowsDebt))

SpecDebt == InitDebt /\ [][Next]_vars

(* What the claim calls a violation, on a source row *)
DebtRatioBad(r) ==
    r.taux_endettement = NaN \/ r.taux_endettement < 0 \/ r.taux_endettement > 100

AgeBad(r) ==
    r.annee_demande = NaN \/ r.annee_naissance = NaN
        \/ r.annee_demande - r.annee_naissance < 18

(* C1: every record of the cleaned table has a debt ratio in [0, 100] and an
   age, annee_demande - annee_naissance, of at least 18, none of them
   missing; a source record that breaks either rule is absent from the
   cleaned table, and one that breaks neither is present. *)
C1_CleanedRowsAreValid ==
    status = "ok" =>
        /\ \A i \in DOMAIN df :
              /\ df[i].taux_endettement # NaN
              /\ df[i].taux_endettement >= 0 /\ df[i].taux_endettement <= 100
              /\ df[i].age # NaN
              /\ df[i].age = df[i].annee_demande - df[i].annee_naissance
              /\ df[i].age >= 18
        /\ \A i \in DOMAIN source :
              (DebtRatioBad(source[i]) \/ AgeBad(source[i]))
                  <=> source[i].idx \notin IdxOf(df)

(* C1 witness: the file holds a record that breaks a rule, which is dropped,
   and a record at the bounds (debt ratio 100 or age 18), which is kept. *)
C1_Witness ==
    /\ status = "ok"
    /\ \E i \in DOMAIN source :
          (DebtRatioBad(source[i]) \/ AgeBad(source[i]))
              /\ source[i].idx \notin IdxOf(df)
    /\ \E i \in DOMAIN df : df[i].taux_endettement = 100 \/ df[i].age = 18

MaxRowsIdem == 2

(* Tables whose rows differ in what the cleaning rewrites or drops *)
IdemRows ==
    {BaseRow,
     [BaseRow EXCEPT !.code_postal = IntCell(1000)],
     [BaseRow EXCEPT !.code_postal = FloatCell(1000)],
     [BaseRow EXCEPT !.code_postal = StrCell(<<"7", "5", "0", "0", "1", "1">>)],
     [BaseRow EXCEPT !.code_postal = NanCell],
     [BaseRow EXCEPT !.mois_demande = 13],
     [BaseRow EXCEPT !.mois_demande = 101],
     [BaseRow EXCEPT !.taux_endettement = 150],
     [BaseRow EXCEPT !.annee_naissance = 2004]}

InitIdem == InitWith(Tables(IdemRows, MaxRowsIdem))

SpecIdem == InitIdem /\ [][Next]_vars

(* C9: the cleaning steps applied to the cleaned table raise nothing and give
   the same table back: no record dropped, no field changed. *)
C9_CleaningIsIdempotent ==
    status = "ok" => (~CleanRaises(df) /\ Clean(df) = df)

(* C9 witness: the first cleaning dropped one of two records and padded the
   postal code of the other; cleaning the result again changes nothing. *)
C9_Witness ==
    /\ status = "ok"
    /\ df = load_data(source)
    /\ Len(df) = 1 /\ Len(source) = 2
    /\ \E i \in DOMAIN source :
          /\ source[i].idx \in IdxOf(df)
          /\ Len(astype_str(source[i].code_postal)) < ZfillWidth
    /\ Clean(df) = df

MaxRowsClean == 2

(* Tables whose rows differ in the postal code cell and the request month *)
CleanRows ==
    {[BaseRow EXCEPT !.code_postal = c] :
        c \in {IntCell(1000), IntCell(13001), FloatCell(1000),
               StrCell(<<"6", "9", "0", "0", "1">>),
               StrCell(<<"7", "5", "0", "0", "1", "1">>), NanCell}}
    \cup {[BaseRow EXCEPT !.mois_demande = m] : m \in {3, 12, 13, 101, 0, NaN}}
    \cup {[BaseRow EXCEPT !.annee_demande = 2020, !.mois_demande = 12],
          [BaseRow EXCEPT !.taux_endettement = 150]}

InitClean == InitWith(Tables(CleanRows, MaxRowsClean))

SpecClean == InitClean /\ [][Next]_vars

(* C8: every record of the cleaned table has a code_postal of exactly five
   characters whose first two are its departement. *)
C8_PostalCodeHasFiveChars ==
    status = "ok" =>
        \A i \in DOMAIN df :
            /\ Len(df[i].code_postal.str) = 5
            /\ df[i].departement = SubSeq(df[i].code_postal.str, 1, 2)

(* A (year, month) pair that names a month of the calendar *)
ValidYearMonth(r) ==
    /\ r.annee_demande # NaN /\ r.mois_demande # NaN
    /\ r.mois_demande >= 1 /\ r.mois_demande <= 12

HasDate(t) == {i \in DOMAIN t : t[i].date_demande # NaT}

RECURSIVE SumNombre(_)
SumNombre(rows) ==
    IF rows = <<>> THEN 0 ELSE Head(rows).nombre + SumNombre(Tail(rows))

(* C5: a record whose year and month name no calendar month never makes
   load_data fail; it is kept with a null date_demande, counted in the
   filtered count and absent from the monthly series; a valid year and month
   give the first day of that month; the series is in ascending date order
   and its counts sum to the number of filtered records that have a date. *)
C5_InvalidDateIsNullNotFatal ==
    /\ status # "error"
    /\ status = "ok" =>
          /\ \A i \in DOMAIN df :
                df[i].date_demande =
                    IF ValidYearMonth(df[i])
                    THEN Date(df[i].annee_demande, df[i].mois_demande)
                    ELSE NaT
          /\ out.nb = Len(df_filtre)
          /\ \A k \in DOMAIN out.ts :
                /\ out.ts[k].date_demande # NaT
                /\ out.ts[k].nombre =
                      Cardinality({i \in DOMAIN df_filtre :
                          /\ ValidYearMonth(df_filtre[i])
                          /\ Date(df_filtre[i].annee_demande, df_filtre[i].mois_demande)
                                = out.ts[k].date_demande})
                /\ \A l \in DOMAIN out.ts :
                      k < l => DateKey(out.ts[k].date_demande)
                                  < DateKey(out.ts[l].date_demande)
          /\ SumNombre(out.ts) = Cardinality(HasDate(df_filtre))

(* Code point of the characters postal codes are written with *)
CharCode(c) ==
    CASE c = "." -> 46 [] c = "0" -> 48 [] c = "1" -> 49 [] c = "2" -> 50
      [] c = "3" -> 51 [] c = "4" -> 52 [] c = "5" -> 53 [] c = "6" -> 54
      [] c = "7" -> 55 [] c = "8" -> 56 [] c = "9" -> 57 [] c = "a" -> 97
      [] c = "n" -> 110

(* a < b on str *)
RECURSIVE StrLess(_, _)
StrLess(a, b) ==
    IF a = <<>> THEN b # <<>>
    ELSE IF b = <<>> THEN FALSE
    ELSE IF Head(a) = Head(b) THEN StrLess(Tail(a), Tail(b))
    ELSE CharCode(Head(a)) < CharCode(Head(b))

(* The order of the claim: count descending, then department code ascending *)
RanksBefore(g, h) ==
    g.nombre > h.nombre \/ (g.nombre = h.nombre /\ StrLess(g.departement, h.departement))

(* C4: on a non-empty view the top-departments table holds at most 15
   departments with their record counts, by count descending and, among equal
   counts, by department code ascending; it is the head of that total order. *)
C4_TopDepartmentsTieBreakByCode ==
    (status = "ok" /\ df_filtre # <<>>) =>
        LET G == {[departement |-> d,
                   nombre |-> Cardinality({i \in DOMAIN df_filtre :
                                              df_filtre[i].departement = d})] :
                     d \in {df_filtre[i].departement : i \in DOMAIN df_filtre}}
            top == out.top_dep
        IN  /\ Len(top) = Min(15, Cardinality(G))
            /\ Range(top) \subseteq G
            /\ \A k, l \in DOMAIN top : k < l => RanksBefore(top[k], top[l])
            /\ \A g \in G \ Range(top) : \A k \in DOMAIN top : RanksBefore(top[k], g)

-----------------------------------------------------------------------------
(* Properties of the KPI block (specification SpecKpi) *)

MaxRowsKpi == 4

(* Tables whose rows differ in the bank decision *)
KpiRows == {[BaseRow EXCEPT !.etat_demande = e] : e \in {GrantLiteral, "Refuse", NaNCat}}

InitKpi == InitWith(Tables(KpiRows, MaxRowsKpi))

SpecKpi == InitKpi /\ [][Next]_vars

Granted(t) == {i \in DOMAIN t : t[i].etat_demande = GrantLiteral}

(* C7: on a non-empty view the grant rate is 100 * (records whose
   etat_demande is the grant literal) / count, a number between 0 and 100;
   every other record counts in the denominator only. *)
C7_GrantRateIsPercentOfGranted ==
    (status = "ok" /\ Len(df_filtre) > 0) =>
        /\ out.taux_octroi.kind = "num"
        /\ out.taux_octroi.den > 0
        /\ out.taux_octroi.num * Len(df_filtre)
              = 100 * Cardinality(Granted(df_filtre)) * out.taux_octroi.den
        /\ out.taux_octroi.num >= 0
        /\ out.taux_octroi.num <= 100 * out.taux_octroi.den

(* C7 witness: four filtered records, two of them granted, rate 50 *)
C7_Witness ==
    /\ status = "ok"
    /\ Len(df_filtre) = 4
    /\ Cardinality(Granted(df_filtre)) = 2
    /\ out.taux_octroi.num = 50 * out.taux_octroi.den

====
